---- MODULE Spec2Model ----
(***************************************************************************)
(* RIPAS parking simulator: the video pipeline RIPASDetector.process_video *)
(* (detector.py) as a state machine.  The generator is modelled with a     *)
(* program counter: one action per loop iteration / suspension point.      *)
(* Further specifications: SpecImage (process_image), SpecHandle (the      *)
(* detector handle of get_detector as app.py loads it) and SpecLedger      *)
(* (database.py, called by two concurrent sessions).                       *)
(***************************************************************************)
EXTENDS Integers, Sequences, FiniteSets, TLC

\* ---------------------------------------------------------------- bounds
MaxFrames == 30   \* frames the stream can deliver
MaxDets   == 2    \* detections the tracker returns for one frame
MaxCands  == 2    \* candidates the recognizer returns for one region
MaxBoxes  == 2    \* boxes the detector returns for one image
MaxRuns   == 3    \* script runs of one session
MaxClock  == 3    \* the last second of the clock
MaxCalls  == 2    \* ledger operations of one concurrent session

\* ------------------------------------------------------ program constants
ScanEvery      == 3       \* frame_count % 3
HeartbeatEvery == 10      \* frame_count % 10
PrimeZoneArea  == 10000   \* area > 10000
MinPlateLen    == 3       \* len(clean_text) >= 3
VideoMinConf   == 40      \* prob > 0.4, in hundredths
ImageMinConf   == 35      \* prob > 0.35, in hundredths
VoteThreshold  == 2       \* frequency >= 2
FrameWidth     == 640     \* width of the frames of the stream
FrameHeight    == 480     \* height of the frames of the stream

vehicle_classes == {2, 3, 5, 7}

UNKNOWN == <<"U", "N", "K", "N", "O", "W", "N">>

\* ------------------------------------------------------------ input sets
\* int(cap.get(CAP_PROP_FRAME_COUNT)): what the source reports, which need
\* not be the number of frames cap.read() delivers.
TotalFrameCounts == {0, 6, MaxFrames}

Tracks == {1, 2}

\* class ids the tracker may report: car, truck, person
Classes == {2, 7, 0}

\* boxes (x1, y1, x2, y2): a prime-zone box, a box of area exactly 10000,
\* a prime-zone box lying right of the frame and one reaching over its
\* left edge (tracker boxes are not clipped to the frame)
Boxes == { <<0, 0, 200, 100>>, <<0, 0, 100, 100>>, <<700, 0, 900, 100>>,
           <<-5, 0, 200, 100>> }

Detections == [box : Boxes, track_id : Tracks, cls : Classes]

\* raw recognizer texts, as sequences of characters
RawTexts == { <<"a", "b", "1">>, <<"A", "-", "B", "I">>, <<"a", "-", "1">> }

\* a recognizer text that reads as the sentinel
RawUnknown == <<"u", "n", "k", "n", "o", "w", "n">>

\* recognizer output for the regions of a still image
ImageProbs == {35, 36, 60}

ImageCandidates == [text : RawTexts \cup {RawUnknown}, prob : ImageProbs]

\* box.cls and the box of a detection of a still image
ImageBoxes == [box : Boxes, cls : Classes]

\* confidences in hundredths
Probs == {40, 41}

Candidates == [text : RawTexts, prob : Probs]

\* ------------------------------------------------------- pure functions
LowerCase == {"a", "b", "i", "k", "n", "o", "u", "w"}
UpperCase == {"A", "B", "I", "K", "N", "O", "U", "W"}
Digits    == {"1"}

isalnum(ch) == ch \in LowerCase \cup UpperCase \cup Digits

upper(ch) ==
  CASE ch = "a" -> "A"
    [] ch = "b" -> "B"
    [] ch = "i" -> "I"
    [] ch = "k" -> "K"
    [] ch = "n" -> "N"
    [] ch = "o" -> "O"
    [] ch = "u" -> "U"
    [] ch = "w" -> "W"
    [] OTHER    -> ch

\* "".join(e for e in text if e.isalnum()).upper()
CleanText(text) ==
  LET kept == SelectSeq(text, isalnum)
  IN  [i \in 1..Len(kept) |-> upper(kept[i])]

\* the filter with the confidence bound included
AcceptedAtThreshold(clean_text, prob) ==
  Len(clean_text) >= MinPlateLen /\ prob >= VideoMinConf

\* len(clean_text) >= 3 and prob > 0.4
Accepted(clean_text, prob) ==
  Len(clean_text) >= MinPlateLen /\ prob > VideoMinConf

\* Counter(history)[t]
Count(history, t) == Cardinality({i \in 1..Len(history) : history[i] = t})

FirstIndex(history, t) ==
  CHOOSE i \in 1..Len(history) :
    history[i] = t /\ \A j \in 1..(i - 1) : history[j] # t

\* the vote taken as the first text of the history
MostCommonAsFirst(history) == history[1]

\* Counter(history).most_common(1)[0][0]: the highest count, the element
\* inserted first among equals
MostCommon(history) ==
  LET texts == {history[i] : i \in 1..Len(history)}
      best  == {t \in texts : \A u \in texts : Count(history, u) <= Count(history, t)}
  IN  CHOOSE t \in best :
        \A u \in best : FirstIndex(history, t) <= FirstIndex(history, u)

\* the vote satisfied by a single observation
ReachedConsensusAtOne(frequency) == frequency >= 1

\* frequency >= 2
ReachedConsensus(frequency) == frequency >= VoteThreshold

\* (x2 - x1) * (y2 - y1)
Area(box) == (box[3] - box[1]) * (box[4] - box[2])

\* the prime-zone gate with the bound included
InPrimeZoneInclusive(box) == Area(box) >= PrimeZoneArea

\* area > 10000
InPrimeZone(box) == Area(box) > PrimeZoneArea

\* number of elements selected by the slice a:b of an axis of length n
SliceLen(a, b, n) ==
  LET norm(i) == IF i < 0 THEN (IF i + n < 0 THEN 0 ELSE i + n)
                 ELSE (IF i > n THEN n ELSE i)
  IN  IF norm(b) > norm(a) THEN norm(b) - norm(a) ELSE 0

\* frame[y1:y2, x1:x2].size
CropSize(box) ==
  SliceLen(box[2], box[4], FrameHeight) * SliceLen(box[1], box[3], FrameWidth)

\* the finalized filter left out
NotFinalizedAlways(finalized, track_id) == TRUE

\* track_id not in finalized_tracks
NotFinalized(finalized, track_id) == track_id \notin finalized

\* the fraction of the frames still to come
ProgressRemaining(fc, total) == [num |-> total - fc, den |-> total]

\* frame_count / total_frames, kept as a fraction
Progress(fc, total) == [num |-> fc, den |-> total]

\* frame_count % 3 != 0
IsSkippedFrame(fc) == fc % ScanEvery # 0

\* frame_count % 10 == 0
IsHeartbeatFrame(fc) == fc % HeartbeatEvery = 0

\* len(clean_text) >= 3 and prob > 0.35
ImageAccepted(clean_text, prob) ==
  Len(clean_text) >= MinPlateLen /\ prob > ImageMinConf

NoProgress == [num |-> 0, den |-> 0]
NoEvent    == [plate |-> <<>>, frame |-> 0, progress |-> NoProgress]

\* ------------------------------------------------------------------ state
VARIABLES
  pc,               \* position of the generator
  cap,              \* the video capture: "none", "open", "released"
  total_frames,
  frame_count,
  progress,
  annotated_frame,  \* index of the frame annotated_frame was copied from
  track_data,       \* id -> list of accepted cleaned texts (a dict)
  finalized_tracks,
  track_id,         \* loop variable of the detection loop
  ndet,             \* detections consumed in the current frame
  ncand,            \* candidates consumed for the current detection
  last_event,       \* the event most recently handed to the caller
  prev_event,       \* history: the event handed to the caller before it
  emitted,          \* history: id -> plates of the events yielded by the vote
  track_conf,       \* history: id -> confidences of the appended candidates
  ret,              \* outcome of the last cap.read(): "unread", "ok", "failed"
  tracker_calls     \* history: frame indices self.model.track was called on

\* process_image
VARIABLES
  img_pc,           \* "boxes", "cands", "returned"
  plate_text,
  best_conf,
  nbox,             \* boxes consumed
  img_ncand,        \* candidates consumed for the current box
  img_result,       \* <<plate_text, confidence>> returned
  box_best,         \* history: best accepted candidate of the current box
  img_expected      \* history: the result due once a box had an accepted one

\* the detector handle: get_detector (detector.py) behind
\* @st.cache_resource load_ripas_detector (app.py), called by every script
\* run of every session
VARIABLES
  _detector,        \* the module global: 0 for None, else the instance
  constructed,      \* history: number of RIPASDetector() constructions
  resource_cache,   \* the cached value of load_ripas_detector: 0 for none
  cache_lock,       \* the session computing the cached value, 0 for none
  hpc,              \* session -> position in load_ripas_detector
  det,              \* session -> the handle its last run obtained, 0 for none
  runs              \* session -> script runs that obtained a handle

handle_vars == <<_detector, constructed, resource_cache, cache_lock, hpc, det,
                 runs>>

Sessions == {1, 2, 3}

\* the ledger of database.py
VARIABLES
  db_file,          \* parking_db.json: plate -> record (no file: no plate)
  now,              \* the clock: the second of the last timestamp
  db_ret,           \* what the last ledger operation returned
  paid_since,       \* history: plate -> paid since its last recorded entry
  gate_opens,       \* history: plate -> exits recorded since that entry
  sess,             \* session -> the operation it is in and the db it loaded
  calls,            \* session -> operations completed
  db_serial         \* history: plate -> the record last saved for the plate

ledger_vars == <<db_file, now, db_ret, paid_since, gate_opens, sess, calls,
                 db_serial>>

Plates == {"AB1", "ABI"}

\* the two sessions whose ledger operations interleave
Callers == {1, 2}

\* exit_time None
None == 0

image_vars == <<img_pc, plate_text, best_conf, nbox, img_ncand, img_result,
                box_best, img_expected>>

video_vars == <<pc, cap, total_frames, frame_count, progress, annotated_frame,
                track_data, finalized_tracks, track_id, ndet, ncand,
                last_event, prev_event, emitted, track_conf, ret,
                tracker_calls>>

\* what a run of process_video leaves alone
beside_video == <<image_vars, handle_vars, ledger_vars>>

\* what a call of process_image leaves alone
beside_image == <<video_vars, handle_vars, ledger_vars>>

\* what loading the detector handle leaves alone
beside_handle == <<video_vars, image_vars, ledger_vars>>

\* what a ledger operation leaves alone
beside_ledger == <<video_vars, image_vars, handle_vars>>

vars == <<video_vars, image_vars, handle_vars, ledger_vars>>

NoReturn == [op |-> "none", plate |-> "", ok |-> FALSE, msg |-> ""]
Idle     == [pc |-> "idle", op |-> "none", plate |-> "", db |-> <<>>]

NoResult    == <<>>
NoCandidate == [text |-> <<>>, prob |-> 0]

History(t) == IF t \in DOMAIN track_data THEN track_data[t] ELSE <<>>

Init ==
  /\ pc = "start"
  /\ cap = "none"
  /\ total_frames = 0
  /\ frame_count = 0
  /\ progress = NoProgress
  /\ annotated_frame = 0
  /\ track_data = <<>>
  /\ finalized_tracks = {}
  /\ track_id = 0
  /\ ndet = 0
  /\ ncand = 0
  /\ last_event = NoEvent
  /\ prev_event = NoEvent
  /\ emitted = [t \in Tracks |-> <<>>]
  /\ track_conf = [t \in Tracks |-> <<>>]
  /\ ret = "unread"
  /\ tracker_calls = <<>>
  /\ img_pc = "boxes"
  /\ plate_text = UNKNOWN
  /\ best_conf = 0
  /\ nbox = 0
  /\ img_ncand = 0
  /\ img_result = NoResult
  /\ box_best = NoCandidate
  /\ img_expected = NoResult
  /\ _detector = 0
  /\ constructed = 0
  /\ resource_cache = 0
  /\ cache_lock = 0
  /\ hpc = [s \in Sessions |-> "idle"]
  /\ det = [s \in Sessions |-> 0]
  /\ runs = [s \in Sessions |-> 0]
  /\ db_file = <<>>
  /\ now = 1
  /\ db_ret = NoReturn
  /\ paid_since = [p \in Plates |-> FALSE]
  /\ gate_opens = [p \in Plates |-> 0]
  /\ sess = [s \in Callers |-> Idle]
  /\ calls = [s \in Callers |-> 0]
  /\ db_serial = <<>>

\* ---------------------------------------------------------------- actions
\* first next(): cap = cv2.VideoCapture(video_path) ... finalized_tracks = set()
\* a source that did not open skips the loop and is released
Start ==
  /\ UNCHANGED beside_video
  /\ pc = "start"
  /\ \E opened \in BOOLEAN, total \in TotalFrameCounts :
       /\ total_frames' = total
       /\ IF opened
            THEN cap' = "open" /\ pc' = "loop"
            ELSE cap' = "released" /\ pc' = "finished"
  /\ UNCHANGED <<frame_count, progress, annotated_frame, track_data,
                 finalized_tracks, track_id, ndet, ncand, last_event,
                 prev_event, emitted, track_conf, ret, tracker_calls>>

\* the failed read propagating as an exception
ReadFailsRaising ==
  /\ UNCHANGED beside_video
  /\ pc = "loop"
  /\ ret' = "failed"
  /\ pc' = "error"
  /\ UNCHANGED <<cap, total_frames, frame_count, progress, annotated_frame,
                 track_data, finalized_tracks, track_id, ndet, ncand,
                 last_event, prev_event, emitted, track_conf, tracker_calls>>

\* cap.read() fails: break, cap.release(), the generator returns
ReadFails ==
  /\ UNCHANGED beside_video
  /\ pc = "loop"
  /\ ret' = "failed"
  /\ cap' = "released"
  /\ pc' = "finished"
  /\ UNCHANGED <<total_frames, frame_count, progress, annotated_frame,
                 track_data, finalized_tracks, track_id, ndet, ncand,
                 last_event, prev_event, emitted, track_conf, tracker_calls>>

\* the heartbeat test at the end of a scanned frame: yield the display
\* event and suspend, or go back to the head of the loop
EndOfFrame ==
  IF IsHeartbeatFrame(frame_count')
    THEN /\ last_event' = [plate    |-> UNKNOWN,
                           frame    |-> annotated_frame',
                           progress |-> progress']
         /\ prev_event' = last_event
         /\ pc' = "yield_heartbeat"
    ELSE /\ pc' = "loop"
         /\ UNCHANGED <<last_event, prev_event>>

\* cap.read() delivers a frame that the sampler skips
ReadSkippedFrame ==
  /\ UNCHANGED beside_video
  /\ pc = "loop"
  /\ frame_count < MaxFrames
  /\ IsSkippedFrame(frame_count + 1)
  /\ ret' = "ok"
  /\ frame_count' = frame_count + 1
  /\ UNCHANGED <<pc, cap, total_frames, progress, annotated_frame, track_data,
                 finalized_tracks, track_id, ndet, ncand, last_event,
                 prev_event, emitted, track_conf, tracker_calls>>

\* cap.read() delivers a scan frame: progress, self.model.track(frame),
\* annotated_frame = frame.copy(), then either the detection loop (boxes.id
\* is not None) or straight to the heartbeat test.  total_frames = 0 makes
\* the division raise ZeroDivisionError out of the generator.
ReadScanFrame ==
  /\ UNCHANGED beside_video
  /\ pc = "loop"
  /\ frame_count < MaxFrames
  /\ ~IsSkippedFrame(frame_count + 1)
  /\ ret' = "ok"
  /\ frame_count' = frame_count + 1
  /\ IF total_frames = 0
       THEN /\ pc' = "error"
            /\ UNCHANGED <<progress, annotated_frame, last_event,
                           prev_event, tracker_calls>>
       ELSE /\ progress' = Progress(frame_count + 1, total_frames)
            /\ tracker_calls' = Append(tracker_calls, frame_count + 1)
            /\ annotated_frame' = frame_count + 1
            /\ \E has_ids \in BOOLEAN :
                 IF has_ids
                   THEN pc' = "dets" /\ UNCHANGED <<last_event, prev_event>>
                   ELSE EndOfFrame
  /\ UNCHANGED <<cap, total_frames, track_data, finalized_tracks, track_id,
                 ndet, ncand, emitted, track_conf>>

\* one iteration of "for box, track_id, cls in zip(boxes, ids, classes)" up
\* to the recognizer call: class filter, finalized filter, prime-zone gate,
\* crop, _preprocess_crop (cv2.cvtColor raises on an empty crop), readtext
Detect(d) ==
  /\ UNCHANGED beside_video
  /\ ndet' = ndet + 1
  /\ track_id' = d.track_id
  /\ ncand' = 0
  /\ pc' = IF d.cls \notin vehicle_classes THEN "dets"
           ELSE IF ~NotFinalized(finalized_tracks, d.track_id) THEN "dets"
           ELSE IF ~InPrimeZone(d.box) THEN "dets"
           ELSE IF CropSize(d.box) = 0 THEN "error"
           ELSE "cands"
  /\ UNCHANGED <<cap, total_frames, frame_count, progress, annotated_frame,
                 track_data, finalized_tracks, last_event, prev_event,
                 emitted, track_conf, ret, tracker_calls>>

Detection ==
  /\ pc = "dets"
  /\ ndet < MaxDets
  /\ \E d \in Detections : Detect(d)

\* the detection loop is exhausted: the heartbeat test of the frame
EndDetections ==
  /\ UNCHANGED beside_video
  /\ pc = "dets"
  /\ ndet' = 0
  /\ UNCHANGED <<cap, total_frames, frame_count, progress, annotated_frame,
                 track_data, finalized_tracks, track_id, ncand, emitted,
                 track_conf, ret, tracker_calls>>
  /\ EndOfFrame

\* one iteration of "for (_, text, prob) in ocr_results": clean, filter,
\* append, vote, and on consensus finalize and suspend at the yield
Observe(c) ==
  LET clean_text == CleanText(c.text)
      history    == Append(History(track_id), clean_text)
      most_common == MostCommon(history)
      frequency  == Count(history, most_common)
  IN  /\ ncand' = ncand + 1
      /\ IF Accepted(clean_text, c.prob)
           THEN /\ track_data' = [t \in DOMAIN track_data \cup {track_id} |->
                                    IF t = track_id THEN history
                                    ELSE track_data[t]]
                /\ track_conf' = [track_conf EXCEPT
                                    ![track_id] = Append(@, c.prob)]
                /\ IF ReachedConsensus(frequency)
                     THEN /\ finalized_tracks' = finalized_tracks \cup {track_id}
                          /\ last_event' = [plate    |-> most_common,
                                            frame    |-> annotated_frame,
                                            progress |-> progress]
                          /\ prev_event' = last_event
                          /\ emitted' = [emitted EXCEPT
                                           ![track_id] = Append(@, most_common)]
                          /\ pc' = "yield_finalize"
                     ELSE UNCHANGED <<finalized_tracks, last_event, prev_event,
                                      emitted, pc>>
           ELSE UNCHANGED <<track_data, track_conf, finalized_tracks,
                            last_event, prev_event, emitted, pc>>
      /\ UNCHANGED <<cap, total_frames, frame_count, progress, annotated_frame,
                     track_id, ndet, ret, tracker_calls>>
      /\ UNCHANGED beside_video

Candidate ==
  /\ pc = "cands"
  /\ ncand < MaxCands
  /\ \E c \in Candidates : Observe(c)

\* the candidate loop is exhausted: next detection
EndCandidates ==
  /\ UNCHANGED beside_video
  /\ pc = "cands"
  /\ pc' = "dets"
  /\ ncand' = 0
  /\ UNCHANGED <<cap, total_frames, frame_count, progress, annotated_frame,
                 track_data, finalized_tracks, track_id, ndet, last_event,
                 prev_event, emitted, track_conf, ret, tracker_calls>>

\* the resumption without the break: the candidate loop goes on
ResumeWithoutBreak ==
  /\ UNCHANGED beside_video
  /\ pc = "yield_finalize"
  /\ pc' = "cands"
  /\ UNCHANGED <<cap, total_frames, frame_count, progress, annotated_frame,
                 track_data, finalized_tracks, track_id, ndet, ncand,
                 last_event, prev_event, emitted, track_conf,
                 ret, tracker_calls>>

\* the caller asks for the next event after a finalize event: break out of
\* the candidate loop, on to the next detection
ResumeAfterFinalize ==
  /\ UNCHANGED beside_video
  /\ pc = "yield_finalize"
  /\ pc' = "dets"
  /\ ncand' = 0
  /\ UNCHANGED <<cap, total_frames, frame_count, progress, annotated_frame,
                 track_data, finalized_tracks, track_id, ndet, last_event,
                 prev_event, emitted, track_conf, ret, tracker_calls>>

\* the caller asks for the next event after a heartbeat: back to the loop
ResumeAfterHeartbeat ==
  /\ UNCHANGED beside_video
  /\ pc = "yield_heartbeat"
  /\ pc' = "loop"
  /\ UNCHANGED <<cap, total_frames, frame_count, progress, annotated_frame,
                 track_data, finalized_tracks, track_id, ndet, ncand,
                 last_event, prev_event, emitted, track_conf,
                 ret, tracker_calls>>

\* the caller abandons the iteration while the generator is suspended at a
\* yield: GeneratorExit is raised there, nothing catches it and the code
\* after the loop is not run
Close ==
  /\ UNCHANGED beside_video
  /\ pc \in {"yield_finalize", "yield_heartbeat"}
  /\ pc' = "closed"
  /\ UNCHANGED <<cap, total_frames, frame_count, progress, annotated_frame,
                 track_data, finalized_tracks, track_id, ndet, ncand,
                 last_event, prev_event, emitted, track_conf,
                 ret, tracker_calls>>

Next ==
  \/ Start
  \/ ReadFails
  \/ ReadSkippedFrame
  \/ ReadScanFrame
  \/ Detection
  \/ EndDetections
  \/ Candidate
  \/ EndCandidates
  \/ ResumeAfterFinalize
  \/ ResumeAfterHeartbeat
  \/ Close

Spec == Init /\ [][Next]_vars

TypeOK ==
  /\ pc \in {"start", "loop", "dets", "cands", "yield_finalize",
             "yield_heartbeat", "finished", "closed", "error"}
  /\ cap \in {"none", "open", "released"}
  /\ frame_count \in 0..MaxFrames
  /\ finalized_tracks \subseteq Tracks
  /\ DOMAIN track_data \subseteq Tracks

\* ------------------------------------------------- process_image, actions
\* Init is the state after results = self.model(image), plate_text =
\* "UNKNOWN", best_conf = 0.

\* one iteration of "for box in boxes" up to the recognizer call: class
\* filter, rectangle, crop, the empty-crop test, _preprocess_crop, readtext
ImageBox(b) ==
  /\ nbox' = nbox + 1
  /\ img_ncand' = 0
  /\ box_best' = NoCandidate
  /\ img_pc' = IF b.cls \notin vehicle_classes THEN "boxes"
               ELSE IF CropSize(b.box) = 0 THEN "boxes"
               ELSE "cands"
  /\ UNCHANGED <<plate_text, best_conf, img_result, img_expected>>
  /\ UNCHANGED beside_image

NextBox ==
  /\ img_pc = "boxes"
  /\ nbox < MaxBoxes
  /\ \E b \in ImageBoxes : ImageBox(b)

\* one iteration of "for (bbox, text, prob) in ocr_results"
ImageObserve(c) ==
  LET clean_text == CleanText(c.text)
  IN  /\ img_ncand' = img_ncand + 1
      /\ IF ImageAccepted(clean_text, c.prob) /\ c.prob > best_conf
           THEN plate_text' = clean_text /\ best_conf' = c.prob
           ELSE UNCHANGED <<plate_text, best_conf>>
      /\ box_best' = IF /\ Len(clean_text) >= 3
                        /\ c.prob > 35
                        /\ (box_best = NoCandidate \/ c.prob > box_best.prob)
                       THEN [text |-> clean_text, prob |-> c.prob]
                       ELSE box_best
      /\ UNCHANGED <<img_pc, nbox, img_result, img_expected>>
      /\ UNCHANGED beside_image

ImageCandidate ==
  /\ img_pc = "cands"
  /\ img_ncand < MaxCands
  /\ \E c \in ImageCandidates : ImageObserve(c)

\* the candidate loop of a box is exhausted: return on a plate, or go on
\* to the next box
ImageEndCandidates ==
  /\ img_pc = "cands"
  /\ IF plate_text # UNKNOWN
       THEN /\ img_result' = <<plate_text, best_conf>>
            /\ img_pc' = "returned"
       ELSE /\ img_pc' = "boxes"
            /\ UNCHANGED img_result
  /\ img_expected' = IF box_best # NoCandidate
                       THEN <<box_best.text, box_best.prob>>
                       ELSE img_expected
  /\ UNCHANGED <<plate_text, best_conf, nbox, img_ncand, box_best>>
  /\ UNCHANGED beside_image

\* the boxes are exhausted: return plate_text, annotated_image, 0.0
ImageEndBoxes ==
  /\ img_pc = "boxes"
  /\ img_result' = <<plate_text, 0>>
  /\ img_pc' = "returned"
  /\ img_expected' = IF img_expected = NoResult THEN <<UNKNOWN, 0>>
                     ELSE img_expected
  /\ UNCHANGED <<plate_text, best_conf, nbox, img_ncand, box_best>>
  /\ UNCHANGED beside_image

NextImage ==
  \/ NextBox
  \/ ImageCandidate
  \/ ImageEndCandidates
  \/ ImageEndBoxes

SpecImage == Init /\ [][NextImage]_vars

\* --------------------------------------------- the detector handle, actions
\* a script run reaches "det = load_ripas_detector()": on a cache hit the
\* cached handle is returned at once
LoadLookup(s) ==
  /\ hpc[s] = "idle"
  /\ runs[s] < MaxRuns
  /\ IF resource_cache # 0
       THEN /\ det' = [det EXCEPT ![s] = resource_cache]
            /\ runs' = [runs EXCEPT ![s] = @ + 1]
            /\ UNCHANGED hpc
       ELSE /\ hpc' = [hpc EXCEPT ![s] = "miss"]
            /\ UNCHANGED <<det, runs>>
  /\ UNCHANGED <<_detector, constructed, resource_cache, cache_lock>>
  /\ UNCHANGED beside_handle

\* the cache miss entered without the lock and without the second lookup
LoadComputeUnlocked(s) ==
  /\ hpc[s] = "miss"
  /\ hpc' = [hpc EXCEPT ![s] = "test"]
  /\ UNCHANGED <<_detector, constructed, resource_cache, cache_lock, det, runs>>
  /\ UNCHANGED beside_handle

\* the cache miss: st.cache_resource computes the value under its lock and
\* looks the cache up again once it holds the lock
LoadCompute(s) ==
  /\ hpc[s] = "miss"
  /\ cache_lock = 0
  /\ IF resource_cache # 0
       THEN /\ det' = [det EXCEPT ![s] = resource_cache]
            /\ runs' = [runs EXCEPT ![s] = @ + 1]
            /\ hpc' = [hpc EXCEPT ![s] = "idle"]
            /\ UNCHANGED cache_lock
       ELSE /\ cache_lock' = s
            /\ hpc' = [hpc EXCEPT ![s] = "test"]
            /\ UNCHANGED <<det, runs>>
  /\ UNCHANGED <<_detector, constructed, resource_cache>>
  /\ UNCHANGED beside_handle

\* get_detector: if _detector is None
GetDetectorTest(s) ==
  /\ hpc[s] = "test"
  /\ hpc' = [hpc EXCEPT ![s] = IF _detector = 0 THEN "construct" ELSE "return"]
  /\ UNCHANGED <<_detector, constructed, resource_cache, cache_lock, det, runs>>
  /\ UNCHANGED beside_handle

\* get_detector: _detector = RIPASDetector()
GetDetectorConstruct(s) ==
  /\ hpc[s] = "construct"
  /\ constructed' = constructed + 1
  /\ _detector' = constructed + 1
  /\ hpc' = [hpc EXCEPT ![s] = "return"]
  /\ UNCHANGED <<resource_cache, cache_lock, det, runs>>
  /\ UNCHANGED beside_handle

\* get_detector: return _detector; the value is cached, the lock released
\* and the run has its handle
GetDetectorReturn(s) ==
  /\ hpc[s] = "return"
  /\ resource_cache' = _detector
  /\ det' = [det EXCEPT ![s] = _detector]
  /\ runs' = [runs EXCEPT ![s] = @ + 1]
  /\ cache_lock' = IF cache_lock = s THEN 0 ELSE cache_lock
  /\ hpc' = [hpc EXCEPT ![s] = "idle"]
  /\ UNCHANGED <<_detector, constructed>>
  /\ UNCHANGED beside_handle

NextHandle ==
  \E s \in Sessions :
    \/ LoadLookup(s)
    \/ LoadCompute(s)
    \/ GetDetectorTest(s)
    \/ GetDetectorConstruct(s)
    \/ GetDetectorReturn(s)

SpecHandle == Init /\ [][NextHandle]_vars

\* ------------------------------------------------------------ the ledger
\* Each operation as a function of the db it loaded and the timestamp it
\* would use: the db to save, whether save_db is called, the value returned.

\* db[plate_number] = record
Put(db, p, rec) ==
  [q \in DOMAIN db \cup {p} |-> IF q = p THEN rec ELSE db[q]]

\* record_entry overwriting a car that is inside
AlreadyInsideNever(db, p) == FALSE

\* plate_number in db and db[plate_number]["exit_time"] is None
AlreadyInside(db, p) == p \in DOMAIN db /\ db[p].exit_time = None

\* {"entry_time": now, "exit_time": None, "is_paid": False}
NewRecord(t) ==
  [entry_time |-> t, exit_time |-> None, is_paid |-> FALSE]

record_entry(db, p, t) ==
  IF AlreadyInside(db, p)
    THEN [db |-> db, saved |-> FALSE,
          ret |-> [op |-> "record_entry", plate |-> p, ok |-> FALSE,
                   msg |-> "is already inside"]]
    ELSE [db |-> Put(db, p, NewRecord(t)), saved |-> TRUE,
          ret |-> [op |-> "record_entry", plate |-> p, ok |-> TRUE,
                   msg |-> "Entry recorded"]]

mark_as_paid(db, p) ==
  IF p \in DOMAIN db
    THEN [db |-> Put(db, p, [db[p] EXCEPT !.is_paid = TRUE]), saved |-> TRUE,
          ret |-> [op |-> "mark_as_paid", plate |-> p, ok |-> TRUE,
                   msg |-> ""]]
    ELSE [db |-> db, saved |-> FALSE,
          ret |-> [op |-> "mark_as_paid", plate |-> p, ok |-> FALSE,
                   msg |-> ""]]

\* the exit test without the payment
ExitRefusalUnpaidIgnored(db, p) ==
  IF p \notin DOMAIN db THEN "Vehicle record not found!"
  ELSE IF db[p].exit_time # None THEN "has already exited"
  ELSE ""

\* the three refusals of record_exit, in the order tested; "" for none
ExitRefusal(db, p) ==
  IF p \notin DOMAIN db THEN "Vehicle record not found!"
  ELSE IF db[p].exit_time # None THEN "has already exited"
  ELSE IF ~db[p].is_paid THEN "Please pay your ticket!"
  ELSE ""

record_exit(db, p, t) ==
  IF ExitRefusal(db, p) # ""
    THEN [db |-> db, saved |-> FALSE,
          ret |-> [op |-> "record_exit", plate |-> p, ok |-> FALSE,
                   msg |-> ExitRefusal(db, p)]]
    ELSE [db |-> Put(db, p, [db[p] EXCEPT !.exit_time = t]), saved |-> TRUE,
          ret |-> [op |-> "record_exit", plate |-> p, ok |-> TRUE,
                   msg |-> "Exit recorded. Gate opening..."]]

Operations == {"record_entry", "mark_as_paid", "record_exit"}

\* datetime.now().strftime("%Y-%m-%d %H:%M:%S"): the second the clock shows,
\* the one of the last timestamp or a later one
Timestamps == {t \in {now, now + 1} : t <= MaxClock}

\* the history variables after an operation returned r
Remember(r) ==
  /\ paid_since' =
       IF r.ret.ok /\ r.ret.op = "mark_as_paid"
         THEN [paid_since EXCEPT ![r.ret.plate] = TRUE]
       ELSE IF r.ret.ok /\ r.ret.op = "record_entry"
         THEN [paid_since EXCEPT ![r.ret.plate] = FALSE]
       ELSE paid_since
  /\ gate_opens' =
       IF r.ret.ok /\ r.ret.op = "record_exit"
         THEN [gate_opens EXCEPT ![r.ret.plate] = @ + 1]
       ELSE IF r.ret.ok /\ r.ret.op = "record_entry"
         THEN [gate_opens EXCEPT ![r.ret.plate] = 0]
       ELSE gate_opens
  /\ db_serial' =
       IF r.saved THEN Put(db_serial, r.ret.plate, r.db[r.ret.plate])
       ELSE db_serial

\* save_db(db) where the operation reaches it, and the return
Return(s, r, t) ==
  /\ db_file' = IF r.saved THEN r.db ELSE db_file
  /\ now' = IF r.saved THEN t ELSE now
  /\ db_ret' = r.ret
  /\ Remember(r)
  /\ sess' = [sess EXCEPT ![s] = Idle]
  /\ calls' = [calls EXCEPT ![s] = @ + 1]

\* a session calls an operation, whose first statement is db = load_db()
Load(s, op, p) ==
  /\ sess[s].pc = "idle"
  /\ calls[s] < MaxCalls
  /\ sess' = [sess EXCEPT ![s] = [pc |-> "loaded", op |-> op, plate |-> p,
                                  db |-> db_file]]
  /\ UNCHANGED <<db_file, now, db_ret, paid_since, gate_opens, calls,
                 db_serial>>
  /\ UNCHANGED beside_ledger

\* the rest of record_entry on the db it loaded
RecordEntry(s) ==
  /\ sess[s].pc = "loaded"
  /\ sess[s].op = "record_entry"
  /\ \E t \in Timestamps :
       Return(s, record_entry(sess[s].db, sess[s].plate, t), t)
  /\ UNCHANGED beside_ledger

\* the rest of mark_as_paid on the db it loaded
MarkAsPaid(s) ==
  /\ sess[s].pc = "loaded"
  /\ sess[s].op = "mark_as_paid"
  /\ Return(s, mark_as_paid(sess[s].db, sess[s].plate), now)
  /\ UNCHANGED beside_ledger

\* the rest of record_exit on the db it loaded
RecordExit(s) ==
  /\ sess[s].pc = "loaded"
  /\ sess[s].op = "record_exit"
  /\ \E t \in Timestamps :
       Return(s, record_exit(sess[s].db, sess[s].plate, t), t)
  /\ UNCHANGED beside_ledger

\* clear_db: os.remove(DB_FILE), return True
ClearDb(s) ==
  /\ sess[s].pc = "idle"
  /\ calls[s] < MaxCalls
  /\ db_file' = <<>>
  /\ db_serial' = <<>>
  /\ db_ret' = [op |-> "clear_db", plate |-> "", ok |-> TRUE, msg |-> ""]
  /\ calls' = [calls EXCEPT ![s] = @ + 1]
  /\ UNCHANGED <<now, paid_since, gate_opens, sess>>
  /\ UNCHANGED beside_ledger

NextLedger ==
  \E s \in Callers :
    \/ \E op \in Operations, p \in Plates : Load(s, op, p)
    \/ RecordEntry(s)
    \/ MarkAsPaid(s)
    \/ RecordExit(s)
    \/ ClearDb(s)

SpecLedger == Init /\ [][NextLedger]_vars

\* ------------------------------------------------------ auxiliary notions
AllDistinct(h) == \A i, j \in 1..Len(h) : i # j => h[i] # h[j]

Last(h) == h[Len(h)]

Front(h) == SubSeq(h, 1, Len(h) - 1)

\* p <= q for two progress fractions with positive denominators
FracLeq(p, q) == p.num * q.den <= q.num * p.den

\* the progress fraction lies in [0, 1]
FracInUnit(p) == p.den > 0 /\ 0 <= p.num /\ p.num <= p.den

\* ------------------------------------------------------------------ claims

\* C1: for every track id at most one finalize event is ever yielded in a
\* run.
C1_AtMostOneFinalize == \A t \in Tracks : Len(emitted[t]) <= 1

\* both tracks were finalized, each yielded once, and the run went on to
\* the end of the stream
C1_Witness ==
  /\ pc = "finished"
  /\ finalized_tracks = Tracks
  /\ \A t \in Tracks : Len(emitted[t]) = 1
  /\ frame_count > last_event.frame

\* C2: a track is finalized exactly at the first accepted append after which
\* some text occurs twice in its history, the plate yielded is that text,
\* and a track whose accepted texts are pairwise distinct is not finalized.
C2_FinalizeAtFirstRepeat ==
  \A t \in Tracks :
    IF t \in finalized_tracks
      THEN /\ Len(History(t)) >= 2
           /\ AllDistinct(Front(History(t)))
           /\ Count(History(t), Last(History(t))) = 2
           /\ emitted[t] = <<Last(History(t))>>
      ELSE /\ AllDistinct(History(t))
           /\ emitted[t] = <<>>

\* the scenario of the spec: X, Y, X finalizes with X at the third
\* observation
C2_Witness ==
  /\ pc = "yield_finalize"
  /\ Len(History(track_id)) = 3
  /\ History(track_id)[1] = History(track_id)[3]
  /\ History(track_id)[2] # History(track_id)[1]
  /\ last_event.plate = History(track_id)[1]

\* a candidate the filter must reject: cleaned length < 3 or confidence
\* not above 0.4
Rejectable(c) ==
  Len(CleanText(c.text)) < MinPlateLen \/ c.prob <= VideoMinConf

\* every stored text has length >= 3 and came with a confidence above 0.4
C3_HistoryFiltered ==
  \A t \in Tracks :
    /\ Len(track_conf[t]) = Len(History(t))
    /\ \A i \in 1..Len(History(t)) :
         /\ Len(History(t)[i]) >= MinPlateLen
         /\ track_conf[t][i] > VideoMinConf

\* a rejectable candidate leaves the history as it was
C3_RejectedLeavesHistory ==
  \A c \in Candidates :
    (pc = "cands" /\ Rejectable(c) /\ Observe(c)) => UNCHANGED track_data

\* C3: every text in a history came from a candidate of cleaned length >= 3
\* and confidence > 0.4, and a candidate failing either leaves the history
\* unchanged.
C3_AcceptanceFilter ==
  []C3_HistoryFiltered /\ [][C3_RejectedLeavesHistory]_vars

\* in the first scanned frame, the first detection had two candidates of
\* which one was stored
C3_Witness ==
  /\ pc = "cands"
  /\ frame_count = ScanEvery
  /\ ndet = 1
  /\ ncand = 2
  /\ Len(History(track_id)) = 1
  /\ \A t \in Tracks \ {track_id} : History(t) = <<>>

\* C4: once a track id is finalized its history is never appended to again
\* and the id never leaves the finalized set.
C4_FinalizedFrozen ==
  [][\A t \in finalized_tracks :
       /\ t \in finalized_tracks'
       /\ t \in DOMAIN track_data => /\ t \in DOMAIN track_data'
                                     /\ track_data'[t] = track_data[t]]_vars

\* a finalized track is detected again in a later scanned frame and skipped
C4_Witness ==
  /\ pc = "dets"
  /\ ndet >= 1
  /\ track_id \in finalized_tracks
  /\ last_event.plate # UNKNOWN
  /\ last_event.frame < annotated_frame

\* C5 as stated: no track id is both a key of track_data and a member of
\* finalized_tracks.
C5_KeysDisjointFromFinalized ==
  (DOMAIN track_data) \cap finalized_tracks = {}

\* C5 as amended: a finalized id is still a key of track_data, and its
\* history is a closed one (some text at the vote threshold); no id is both
\* finalized and holding a history still short of the vote.
C5_FinalizedKeepClosedHistory ==
  \A t \in finalized_tracks :
    /\ t \in DOMAIN track_data
    /\ \E i \in 1..Len(track_data[t]) :
         Count(track_data[t], track_data[t][i]) >= VoteThreshold

\* one track finalized while the other is still accumulating
C5_Witness ==
  \E t \in finalized_tracks, u \in DOMAIN track_data :
    /\ u \notin finalized_tracks
    /\ track_data[u] # <<>>
    /\ t \in DOMAIN track_data

\* C6: on every exit path (stream exhausted, failed read, caller abandoning
\* the iteration at a yield) the capture is released.
C6_ReleasedOnEveryExit ==
  pc \in {"finished", "closed"} => cap = "released"

\* C7: every frame read whose index is a multiple of 10 gets a heartbeat
\* event (plate UNKNOWN) for that frame.
C7_HeartbeatEveryTenth ==
  (pc = "loop" /\ frame_count > 0 /\ frame_count % HeartbeatEvery = 0)
    => /\ last_event.plate = UNKNOWN
       /\ last_event.frame = frame_count

\* C8: in a run that yielded at least one event, the last event yielded
\* before the sequence ends has progress 1.0.
C8_LastProgressIsOne ==
  (pc = "finished" /\ last_event # NoEvent)
    => last_event.progress.num = last_event.progress.den

\* C9: from one yielded event to the next the progress never decreases.
C9_ProgressMonotone ==
  prev_event # NoEvent => FracLeq(prev_event.progress, last_event.progress)

\* two successive events of different frames
C9_Witness ==
  /\ prev_event # NoEvent
  /\ prev_event.frame < last_event.frame
  /\ prev_event.plate # UNKNOWN
  /\ last_event.plate = UNKNOWN

\* C10: every yielded event carries a progress in [0, 1], whatever the
\* reported frame count.
C10_ProgressInUnit ==
  last_event # NoEvent => FracInUnit(last_event.progress)

\* the frames a run that has read n frames must have scanned: 3, 6, 9, ...
ScanFramesUpTo(n) == [i \in 1..(n \div ScanEvery) |-> ScanEvery * i]

\* C11: the tracker is invoked on exactly the frames read whose index is a
\* multiple of 3, once each and in order, and on no other frame; a frame
\* that is not a scan frame changes no history.
C11_TrackerOnEveryThirdFrame ==
  /\ tracker_calls = ScanFramesUpTo(frame_count)
  /\ (frame_count % ScanEvery # 0) => pc \in {"loop", "finished"}

\* C13: a detection whose crop frame[y1:y2, x1:x2] is empty is skipped
\* before _preprocess_crop is called: the loop goes on to the next detection.
C13_EmptyCropSkipped ==
  [][\A d \in Detections :
       (pc = "dets" /\ Detect(d) /\ CropSize(d.box) = 0) => pc' = "dets"]_vars

\* C15: a failed read ends the sequence normally: the generator is finished
\* (no exception, no further read), and the failing step yields no event and
\* reads no frame.
C15_FailedReadEndsRun ==
  /\ [](ret = "failed" => pc = "finished")
  /\ [][ret' = "failed" => /\ last_event' = last_event
                           /\ prev_event' = prev_event
                           /\ frame_count' = frame_count]_vars

\* events were yielded, then a read failed in the middle of the stream
C15_Witness ==
  /\ ret = "failed"
  /\ pc = "finished"
  /\ last_event # NoEvent
  /\ frame_count > last_event.frame
  /\ frame_count < total_frames

\* the step calls self.reader.readtext for detection d: the detection is
\* consumed and the candidate loop entered
RecognizerCalled(d) == pc = "dets" /\ pc' = "cands" /\ Detect(d)

\* C16: the recognizer is invoked for a detection only if it is of a vehicle
\* class, its track id is not finalized and its box area exceeds 10000, and
\* at most once per detection of a scanned frame: every entry into the
\* candidate loop consumes a new detection of the same frame.
C16_RecognizerGated ==
  /\ [][\A d \in Detections :
          RecognizerCalled(d) => /\ d.cls \in {2, 3, 5, 7}
                                 /\ d.track_id \notin finalized_tracks
                                 /\ (d.box[3] - d.box[1]) * (d.box[4] - d.box[2])
                                      > 10000]_vars
  /\ [][pc' = "cands" /\ pc # "cands"
          => /\ pc = "dets"
             /\ ndet' = ndet + 1
             /\ frame_count' = frame_count
             /\ frame_count % ScanEvery = 0]_vars

\* the second detection of a frame reached the recognizer while the other
\* track is already finalized
C16_Witness ==
  /\ pc = "cands"
  /\ ndet = 2
  /\ ncand = 0
  /\ track_id \notin finalized_tracks
  /\ finalized_tracks # {}

\* C12: process_image returns, for the first vehicle box that has an
\* accepted candidate, the text and confidence of that box's best accepted
\* candidate, without looking at later boxes, and <<"UNKNOWN", 0.0>> if no
\* box has one.
C12_FirstQualifyingBox ==
  /\ img_pc = "returned" => img_result = img_expected
  /\ img_pc # "returned" => img_expected = NoResult

\* C14: the detector handle is created exactly once: the first call
\* constructs a RIPASDetector and every later call, of any run of any
\* session, returns that same instance without constructing another.
C14_HandleCreatedOnce ==
  /\ constructed <= 1
  /\ _detector \in {0, 1}
  /\ \A s \in Sessions : det[s] # 0 => (det[s] = 1 /\ constructed = 1)

\* every session ran its script more than once and holds the one handle
C14_Witness ==
  /\ constructed = 1
  /\ \A s \in Sessions : runs[s] >= 2 /\ det[s] = 1 /\ hpc[s] = "idle"

\* ------------------------------------------------ claims about the ledger
\* the ledger operation session s is about to finish, on the db it loaded
Finishing(s, op) == sess[s].pc = "loaded" /\ sess[s].op = op

\* C17: every stored record with an exit_time is paid; record_exit returns
\* success only when the plate has a record with no exit_time that is paid,
\* and (False, message) in each of the three other cases.
C17_ExitOnlyWhenPaid ==
  /\ [](\A p \in DOMAIN db_file :
          db_file[p].exit_time # None => db_file[p].is_paid)
  /\ [][\A s \in Callers :
          (Finishing(s, "record_exit") /\ RecordExit(s)) =>
            LET db == sess[s].db
                p  == sess[s].plate
            IN  /\ db_ret'.ok <=> /\ p \in DOMAIN db
                                  /\ db[p].exit_time = None
                                  /\ db[p].is_paid
                /\ p \notin DOMAIN db =>
                     db_ret'.msg = "Vehicle record not found!"
                /\ (p \in DOMAIN db /\ db[p].exit_time # None) =>
                     db_ret'.msg = "has already exited"
                /\ (p \in DOMAIN db /\ db[p].exit_time = None
                      /\ ~db[p].is_paid) =>
                     db_ret'.msg = "Please pay your ticket!"]_vars

\* a car's exit is stored, paid, and its second exit was refused
C17_Witness ==
  /\ db_ret.op = "record_exit"
  /\ ~db_ret.ok
  /\ db_ret.msg = "has already exited"
  /\ db_ret.plate \in DOMAIN db_file
  /\ db_file[db_ret.plate].exit_time # None
  /\ db_file[db_ret.plate].is_paid

\* C18: each successful record_exit of a plate follows a mark_as_paid of the
\* plate made after its most recent successful record_entry, and the gate
\* opens at most once per entry.
C18_GateOpensOncePerPaidEntry ==
  \A p \in Plates : /\ gate_opens[p] <= 1
                    /\ gate_opens[p] >= 1 => paid_since[p]

\* C19: a rejected operation leaves the stored ledger unchanged: record_entry
\* of a plate that is inside, a failing record_exit, mark_as_paid of an
\* unknown plate.
C19_RejectedWritesNothing ==
  [][\A s \in Callers :
       LET db == sess[s].db
           p  == sess[s].plate
       IN  /\ ( /\ Finishing(s, "record_entry") /\ RecordEntry(s)
                /\ p \in DOMAIN db /\ db[p].exit_time = None )
              => ( /\ db_file' = db_file
                   /\ ~db_ret'.ok )
           /\ ( /\ Finishing(s, "record_exit") /\ RecordExit(s)
                /\ \/ p \notin DOMAIN db
                   \/ db[p].exit_time # None
                   \/ ~db[p].is_paid )
              => ( /\ db_file' = db_file
                   /\ ~db_ret'.ok )
           /\ ( /\ Finishing(s, "mark_as_paid") /\ MarkAsPaid(s)
                /\ p \notin DOMAIN db )
              => ( /\ db_file' = db_file
                   /\ ~db_ret'.ok )]_vars

\* record_entry was repeated for a paid car that is inside: still paid, with
\* the entry time it had
C19_Witness ==
  /\ db_ret.op = "record_entry"
  /\ ~db_ret.ok
  /\ db_ret.plate \in DOMAIN db_file
  /\ db_file[db_ret.plate].is_paid
  /\ db_file[db_ret.plate].exit_time = None

\* C20: when the operations of two sessions interleave at their load_db and
\* save_db steps, the stored ledger holds, for every plate, the record the
\* last operation on that plate saved (no lost update).
C20_NoLostUpdate ==
  (\A s \in Callers : sess[s].pc = "idle") =>
    \A p \in DOMAIN db_serial : /\ p \in DOMAIN db_file
                                /\ db_file[p] = db_serial[p]

====
